---- MODULE Spec2Model ----
(***************************************************************************)
(* Model of the mortgage engine of src/utils/mortgage_math.py:             *)
(*   monthly_payment, generate_amortization, calculate_mortgage_costs,     *)
(*   calculate_upfront_costs,                                              *)
(* and of the comparison of src/components/comparison.py:                  *)
(*   show_buy_vs_rent.                                                     *)
(*                                                                         *)
(* Numbers.  The program computes in Python floats.  A float is modelled   *)
(* as a fixed-point number and every multiplication and division is        *)
(* rounded to the nearest representable value, as IEEE arithmetic does:    *)
(*   - an amount of money m is the integer m * MoneyScale,                 *)
(*   - a dimensionless number x (a rate, a percentage, a power of 1+r) is  *)
(*     the integer x * RateScale,                                          *)
(*   - years and months are plain integers.                                *)
(* Additions and subtractions are exact.                                   *)
(***************************************************************************)
EXTENDS Integers, Sequences, FiniteSets

\* ------------------------------------------------------------------ bounds
\* resolution of amounts and of dimensionless numbers, longest term in years
MoneyScale == 100
RateScale == 10000
MaxYears == 2

\* ------------------------------------------------------- number encodings
Money(m) == m * MoneyScale

\* a / b rounded to the nearest integer (halves upwards), b # 0
RDiv(a, b) ==
    LET n == IF b < 0 THEN -a ELSE a
        d == IF b < 0 THEN -b ELSE b
        q == n \div d
        r == n - q * d
    IN  IF 2 * r >= d THEN q + 1 ELSE q

\* the number n/d as a dimensionless fixed-point value
Rate(n, d) == RDiv(n * RateScale, d)

Abs(x) == IF x < 0 THEN -x ELSE x

\* x ** e for a fixed-point base x and an integer exponent e >= 0, by
\* squaring, every product rounded
RECURSIVE PowN(_, _)
PowN(x, e) ==
    IF e = 0 THEN RateScale
    ELSE IF e % 2 = 0
         THEN LET h == PowN(x, e \div 2) IN RDiv(h * h, RateScale)
         ELSE RDiv(PowN(x, e - 1) * x, RateScale)

\* x ** e for a fixed-point base x and any integer exponent e
Pow(x, e) == IF e >= 0 THEN PowN(x, e) ELSE RDiv(RateScale * RateScale, PowN(x, -e))

\* --------------------------------------------------------- monthly_payment
Returned(v) == [raised |-> FALSE, value |-> v]
ZeroDivisionError == [raised |-> TRUE, value |-> 0]

MonthlyRate(annual_rate) == RDiv(RDiv(annual_rate, 100), 12)

\* monthly_payment without the zero-rate branch of lines 7-8
monthly_payment_no_zero_branch(p, annual_rate, yrs) ==
    LET monthly_rate == MonthlyRate(annual_rate)
        months == yrs * 12
        denom == RateScale - Pow(RateScale + monthly_rate, -months)
    IN  IF denom = 0 THEN ZeroDivisionError
        ELSE Returned(RDiv(p * monthly_rate, denom))

monthly_payment(p, annual_rate, yrs) ==
    LET monthly_rate == MonthlyRate(annual_rate)
        months == yrs * 12
        denom == RateScale - Pow(RateScale + monthly_rate, -months)
    IN  IF monthly_rate = 0
        THEN IF months = 0 THEN ZeroDivisionError ELSE Returned(RDiv(p, months))
        ELSE IF denom = 0 THEN ZeroDivisionError
             ELSE Returned(RDiv(p * monthly_rate, denom))

\* ------------------------------------------------- calculate_upfront_costs
\* (pct / 100) * amount
PctOf(pct, amount) == RDiv(RDiv(pct, 100) * amount, RateScale)

\* sum([...]) of a list of amounts
RECURSIVE ListSum(_)
ListSum(xs) == IF xs = <<>> THEN 0 ELSE Head(xs) + ListSum(Tail(xs))

\* the arrangement fee taken on the property price instead of the loan
calculate_upfront_costs_fee_on_price(price, loan_amount, dp, trustee, valuation, dewa, snagging, processing_pct, dld_pct, agent_pct) ==
    ListSum(<<dp, PctOf(dld_pct, price), trustee, PctOf(agent_pct, price),
              valuation, dewa, snagging, PctOf(processing_pct, price)>>)

\* lines 95-109
calculate_upfront_costs(price, loan_amount, dp, trustee, valuation, dewa, snagging, processing_pct, dld_pct, agent_pct) ==
    LET dld_fee == PctOf(dld_pct, price)
        agent_fee == PctOf(agent_pct, price)
        arrangement_fee == PctOf(processing_pct, loan_amount)
    IN  ListSum(<<dp, dld_fee, trustee, agent_fee,
                  valuation, dewa, snagging, arrangement_fee>>)

\* -------------------------------------------------------- show_buy_vs_rent
\* config.py: the defaults the comparison reads
DEFAULTS ==
    [trustee_fee |-> Money(4200), valuation_fee |-> Money(3000),
     dewa_fee |-> Money(2000), snagging_fee |-> Money(1000),
     home_insurance_pct |-> Rate(2, 10), life_insurance_pct |-> Rate(5, 10),
     arrangement_fee_pct |-> Rate(1, 1)]

\* mortgage_math.py lines 48-51: the parameters of calculate_mortgage_costs,
\* none of which has a default
calculate_mortgage_costs_parameters ==
    <<"property_price", "down_payment_pct", "loan_amount", "mortgage_years",
      "fixed_years", "fixed_rate", "floating_rate", "built_up_area",
      "service_charge_rate", "home_insurance_pct", "life_insurance_pct">>

None == "None"
Max(x, y) == IF x >= y THEN x ELSE y

\* 1 + pct / 100
Growth(pct) == RateScale + RDiv(pct, 100)

\* outcomes of show_buy_vs_rent
Raise(e, l) == [status |-> "raised", error |-> e, line |-> l]

\* lines 117-124: the call of calculate_upfront_costs
upfront_cost(a, c) ==
    calculate_upfront_costs(a.property_price, c.loan_amount, c.down_payment,
                            DEFAULTS.trustee_fee, DEFAULTS.valuation_fee,
                            DEFAULTS.dewa_fee, DEFAULTS.snagging_fee,
                            DEFAULTS.arrangement_fee_pct,
                            DEFAULTS.home_insurance_pct,
                            DEFAULTS.life_insurance_pct)

\* mortgage_math.py line 57: the entry of mortgage_costs the loop reads
annual_service_charge_of(a) == a.built_up_area * a.service_charge_rate

\* lines 126-141: the locals before the first year
LoopInit(a, c) ==
    [year |-> 0, rent_total |-> 0, current_rent |-> a.monthly_rent,
     buy_total |-> upfront_cost(a, c) - c.down_payment, opportunity_cost |-> 0,
     property_value |-> a.property_price, remaining_loan |-> c.loan_amount,
     equity |-> a.property_price - c.loan_amount, net_position |-> 0]

\* lines 144-214: one pass of the year loop from the locals s
YearStep(a, c, s) ==
    LET year == s.year + 1
        property_value ==
            RDiv(a.property_price * Pow(Growth(a.appreciation_rate), year), RateScale)
        annual_rent == s.current_rent * 12
        rent_total == s.rent_total + annual_rent
        current_rent == RDiv(s.current_rent * Growth(a.rent_growth), RateScale)
        in_term == year <= a.mortgage_years
        gross_mortgage == IF year <= a.fixed_years
                          THEN c.monthly_fixed_payment * 12
                          ELSE c.monthly_floating_payment * 12
        monthly_rate == IF year <= a.fixed_years
                        THEN MonthlyRate(a.fixed_rate)
                        ELSE MonthlyRate(c.floating_rate)
        annual_interest == RDiv(s.remaining_loan * monthly_rate, RateScale) * 12
        annual_principal == gross_mortgage - annual_interest
        tax_savings == PctOf(a.tax_advantage, annual_interest)
        annual_mortgage == gross_mortgage - tax_savings
        remaining_loan == IF in_term
                          THEN Max(0, s.remaining_loan - annual_principal)
                          ELSE 0
        annual_buy_cost ==
            (IF in_term THEN annual_mortgage ELSE 0)
              + annual_service_charge_of(a)
              + c.annual_home_insurance
              + (IF remaining_loan > 0 THEN c.annual_life_insurance ELSE 0)
              + PctOf(a.additional_ownership_costs, property_value)
        opportunity_cost ==
            IF a.include_opportunity_cost
            THEN RDiv(c.down_payment
                        * (Pow(Growth(a.investment_return), year) - RateScale),
                      RateScale)
            ELSE 0
        buy_total == s.buy_total + annual_buy_cost
        equity == property_value - remaining_loan
        net_position == equity - buy_total - opportunity_cost + c.down_payment
    IN  [year |-> year, rent_total |-> rent_total, current_rent |-> current_rent,
         buy_total |-> buy_total, opportunity_cost |-> opportunity_cost,
         property_value |-> property_value, remaining_loan |-> remaining_loan,
         equity |-> equity, net_position |-> net_position,
         mortgage_paid |-> IF in_term THEN annual_mortgage ELSE 0,
         principal_credited |-> IF in_term THEN annual_principal ELSE 0,
         life_insurance |-> IF remaining_loan > 0
                            THEN c.annual_life_insurance ELSE 0]

\* line 143: the locals after the pass of year y
RECURSIVE AfterYear(_, _, _)
AfterYear(a, c, y) ==
    IF y = 0 THEN LoopInit(a, c) ELSE YearStep(a, c, AfterYear(a, c, y - 1))

\* lines 143-214: the locals after each pass of the year loop
year_loop(a, c) == [y \in 1 .. a.compare_years |-> AfterYear(a, c, y)]

\* lines 216-230: one record per year of the loop
comparison_df(loop) ==
    [y \in DOMAIN loop |->
        [Year |-> loop[y].year, CumulativeRent |-> loop[y].rent_total,
         CumulativeBuyCost |-> loop[y].buy_total,
         PropertyEquity |-> loop[y].equity,
         OpportunityCost |-> loop[y].opportunity_cost,
         NetPosition |-> loop[y].net_position,
         BuyVsRentAdvantage |-> loop[y].net_position - (-loop[y].rent_total)]]

\* lines 233-237: the year of the first record whose advantage is positive
FirstAdvantage(df) ==
    IF \E i \in DOMAIN df : df[i].BuyVsRentAdvantage > 0
    THEN df[CHOOSE i \in DOMAIN df :
                /\ df[i].BuyVsRentAdvantage > 0
                /\ \A j \in DOMAIN df : j < i => ~(df[j].BuyVsRentAdvantage > 0)].Year
    ELSE None

\* lines 247-260: the extension from extended_year, capped at 100 years
RECURSIVE Extend(_, _, _, _, _, _)
Extend(a, buy_total, extended_year, extended_property_value, extended_rent_total, current_rent) ==
    IF ~(extended_year < 100) THEN None
    ELSE LET y == extended_year + 1
             v == RDiv(extended_property_value * Growth(a.appreciation_rate),
                       RateScale)
             annual_rent == current_rent * 12
             t == extended_rent_total + annual_rent
             r == RDiv(current_rent * Growth(a.rent_growth), RateScale)
         IN  IF v - buy_total > t THEN y ELSE Extend(a, buy_total, y, v, t, r)

\* lines 216-267 from the locals the year loop went through
Summary(a, c, loop) ==
    LET df == comparison_df(loop)
        last == loop[Len(loop)]
        in_frame == FirstAdvantage(df)
        break_even_year ==
            IF in_frame = None
            THEN Extend(a, last.buy_total, a.compare_years, last.property_value,
                        last.rent_total,
                        RDiv(a.monthly_rent * Pow(Growth(a.rent_growth),
                                                  a.compare_years), RateScale))
            ELSE in_frame
        final_rent_cost == df[Len(df)].CumulativeRent
        final_buy_cost == df[Len(df)].CumulativeBuyCost
        final_property_value == df[Len(df)].PropertyEquity
        final_opportunity_cost == df[Len(df)].OpportunityCost
    IN  [status |-> "returned", comparison_df |-> df,
         remaining_loan |-> [y \in DOMAIN loop |-> loop[y].remaining_loan],
         property_value |-> [y \in DOMAIN loop |-> loop[y].property_value],
         mortgage_paid |-> [y \in DOMAIN loop |-> loop[y].mortgage_paid],
         principal_credited |->
             [y \in DOMAIN loop |-> loop[y].principal_credited],
         life_insurance |-> [y \in DOMAIN loop |-> loop[y].life_insurance],
         loan_amount |-> c.loan_amount,
         down_payment |-> c.down_payment,
         break_even_year |-> break_even_year,
         final_rent_cost |-> final_rent_cost,
         final_buy_cost |-> final_buy_cost,
         final_property_value |-> final_property_value,
         final_opportunity_cost |-> final_opportunity_cost,
         net_worth_buying |-> final_property_value - final_buy_cost
                                  - final_opportunity_cost]

\* lines 126-267 from the prologue values c
Compare(a, c) == Summary(a, c, year_loop(a, c))

\* lines 99-109: the locals computed before the calls of the cost functions
Prologue(a) ==
    LET down_payment == PctOf(a.down_payment_pct, a.property_price)
        loan_amount == a.property_price - down_payment
        floating_rate == a.eibor_rate + Rate(15, 10)
        monthly_fixed_payment ==
            monthly_payment(loan_amount, a.fixed_rate, a.mortgage_years)
        monthly_floating_payment ==
            monthly_payment(loan_amount, floating_rate,
                            a.mortgage_years - a.fixed_years)
    IN  [down_payment |-> down_payment,
         loan_amount |-> loan_amount,
         floating_rate |-> floating_rate,
         annual_home_insurance |->
             PctOf(DEFAULTS.home_insurance_pct, a.property_price),
         annual_life_insurance |->
             PctOf(DEFAULTS.life_insurance_pct, loan_amount),
         monthly_fixed_payment |-> monthly_fixed_payment.value,
         monthly_floating_payment |-> monthly_floating_payment.value,
         raised |-> IF monthly_fixed_payment.raised THEN 108
                    ELSE IF monthly_floating_payment.raised THEN 109
                    ELSE 0]

\* lines 111-115: the positional arguments of the call
mortgage_costs_args(a, c) ==
    <<a.property_price, a.down_payment_pct, c.loan_amount, a.mortgage_years,
      a.fixed_years, a.fixed_rate, c.floating_rate, a.built_up_area,
      a.service_charge_rate>>

\* lines 111-267 from the prologue values c
CostsAndCompare(a, c) ==
    IF Len(mortgage_costs_args(a, c)) # Len(calculate_mortgage_costs_parameters)
    THEN Raise("TypeError", 111)
    ELSE Compare(a, c)

\* lines 99-267 for the session and widget values a
show_buy_vs_rent(a) ==
    LET c == Prologue(a)
    IN  IF c.raised # 0 THEN Raise("ZeroDivisionError", c.raised)
        ELSE CostsAndCompare(a, c)

\* ------------------------------------------------------------------- state
VARIABLES
    entry,                  \* the function the caller invokes
    pc,                     \* position in the running function
    principal, annual_rate, years,          \* arguments of monthly_payment
    ret,                    \* value returned by monthly_payment or
                            \* calculate_upfront_costs
    down_payment, trustee_fee, valuation_fee, dewa_fee, snagging_fee,
    processing_fee_pct, dld_fee_pct, agent_fee_pct,
    loan, fixed_years, mortgage_years, fixed_rate, floating_rate,
    property_price, built_up_area, service_charge_rate,
    home_insurance_pct, life_insurance_pct,
    month, balance, monthly_fixed, monthly_floating, data, yearly,
    cmc_monthly_fixed, cmc_monthly_floating,
    annual_service_charge, total_service_charge,
    row_idx, home_insurance_total, life_insurance_total, life_charges,
    costs,
    session,                \* session and widget values of show_buy_vs_rent
    prologue,               \* locals of show_buy_vs_rent set by lines 99-109
    comparison              \* outcome of show_buy_vs_rent

args == <<entry, principal, annual_rate, years, loan, fixed_years, mortgage_years,
          fixed_rate, floating_rate, property_price, built_up_area,
          service_charge_rate, home_insurance_pct, life_insurance_pct,
          down_payment, trustee_fee, valuation_fee, dewa_fee, snagging_fee,
          processing_fee_pct, dld_fee_pct, agent_fee_pct, session>>
ga_locals == <<month, balance, monthly_fixed, monthly_floating, data, yearly>>
cmc_locals == <<cmc_monthly_fixed, cmc_monthly_floating, annual_service_charge,
                total_service_charge, row_idx, home_insurance_total,
                life_insurance_total, life_charges, costs>>
sbr_locals == <<prologue, comparison>>
vars == <<args, pc, ret, ga_locals, cmc_locals, sbr_locals>>

\* ------------------------------------------------------------ input domains
Entries == {"monthly_payment", "generate_amortization", "calculate_mortgage_costs",
            "calculate_upfront_costs", "show_buy_vs_rent"}
Principals == {Money(-1200), Money(0), Money(1000), Money(1200)}
AnnualRates == {Rate(0, 1), Rate(399, 100), Rate(12, 1)}
TermYears == -1 .. MaxYears
\* the calls of monthly_payment: the grid above and the zero-rate example
PaymentCalls == (Principals \X AnnualRates \X TermYears)
                    \cup {<<Money(120000), Rate(0, 1), 10>>}
Loans == {Money(1000), Money(1200)}
Years == 0 .. MaxYears
PropertyPrices == {Money(1500)}
Areas == {10}
ServiceChargeRates == {Money(15)}
HomeInsurancePcts == {Rate(0, 1), Rate(2, 10)}
LifeInsurancePcts == {Rate(0, 1), Rate(5, 10)}
DownPayments == {Money(0), Money(300)}
TrusteeFees == {Money(42)}
ValuationFees == {Money(30)}
DewaFees == {Money(20)}
SnaggingFees == {Money(0), Money(10)}
ProcessingFeePcts == {Rate(0, 1), Rate(1, 1), Rate(2, 1)}
DldFeePcts == {Rate(4, 1)}
AgentFeePcts == {Rate(0, 1), Rate(2, 1)}
AppreciationRates == {Rate(0, 1), Rate(3, 1)}
MonthlyRents == {Money(8), Money(10)}
\* the values show_buy_vs_rent reads from the session and from its widgets
Sessions ==
    [property_price : {Money(1500)}, down_payment_pct : {Rate(20, 1)},
     mortgage_years : 1 .. MaxYears, fixed_years : 1 .. MaxYears,
     fixed_rate : {Rate(399, 100)}, eibor_rate : {Rate(35, 10)},
     built_up_area : {10}, service_charge_rate : {Money(15)},
     monthly_rent : MonthlyRents, rent_growth : {Rate(0, 1), Rate(5, 1)},
     compare_years : {10, 20}, appreciation_rate : AppreciationRates,
     investment_return : {Rate(5, 1)},
     additional_ownership_costs : {Rate(5, 10)},
     tax_advantage : {Rate(0, 1)}, include_opportunity_cost : BOOLEAN]

total_months == mortgage_years * 12
fixed_months == fixed_years * 12
floating_months == total_months - fixed_months

InitLocals ==
    /\ ret = 0
    /\ month = 0 /\ balance = 0 /\ monthly_fixed = 0 /\ monthly_floating = 0
    /\ data = <<>> /\ yearly = <<>>
    /\ cmc_monthly_fixed = 0 /\ cmc_monthly_floating = 0
    /\ annual_service_charge = 0 /\ total_service_charge = 0
    /\ row_idx = 0 /\ home_insurance_total = 0 /\ life_insurance_total = 0
    /\ life_charges = <<>>
    /\ costs = [returned |-> FALSE]
    /\ prologue = [raised |-> 0]
    /\ comparison = [status |-> "pending"]

Init ==
    /\ entry \in Entries
    /\ pc = IF entry = "generate_amortization" THEN "ga_start" ELSE "start"
    /\ IF entry = "monthly_payment"
       THEN /\ \E c \in PaymentCalls :
                    principal = c[1] /\ annual_rate = c[2] /\ years = c[3]
            /\ loan = 0 /\ fixed_years = 0 /\ mortgage_years = 0
            /\ fixed_rate = 0 /\ floating_rate = 0
       ELSE /\ principal = 0 /\ annual_rate = 0 /\ years = 0
            /\ loan \in IF entry = "show_buy_vs_rent" THEN {0} ELSE Loans
            /\ IF entry \in {"calculate_upfront_costs", "show_buy_vs_rent"}
               THEN /\ fixed_years = 0 /\ mortgage_years = 0
                    /\ fixed_rate = 0 /\ floating_rate = 0
               ELSE /\ fixed_years \in Years
                    /\ mortgage_years \in Years \ {0}
                    /\ fixed_rate \in AnnualRates
                    /\ floating_rate \in AnnualRates
    /\ IF entry = "calculate_mortgage_costs"
       THEN /\ property_price \in PropertyPrices
            /\ built_up_area \in Areas
            /\ service_charge_rate \in ServiceChargeRates
            /\ home_insurance_pct \in HomeInsurancePcts
            /\ life_insurance_pct \in LifeInsurancePcts
       ELSE /\ property_price = IF entry = "calculate_upfront_costs"
                                THEN Money(1500) ELSE 0
            /\ built_up_area = 0 /\ service_charge_rate = 0
            /\ home_insurance_pct = 0 /\ life_insurance_pct = 0
    /\ IF entry = "calculate_upfront_costs"
       THEN /\ down_payment \in DownPayments
            /\ trustee_fee \in TrusteeFees
            /\ valuation_fee \in ValuationFees
            /\ dewa_fee \in DewaFees
            /\ snagging_fee \in SnaggingFees
            /\ processing_fee_pct \in ProcessingFeePcts
            /\ dld_fee_pct \in DldFeePcts
            /\ agent_fee_pct \in AgentFeePcts
       ELSE /\ down_payment = 0 /\ trustee_fee = 0 /\ valuation_fee = 0
            /\ dewa_fee = 0 /\ snagging_fee = 0 /\ processing_fee_pct = 0
            /\ dld_fee_pct = 0 /\ agent_fee_pct = 0
    /\ IF entry = "show_buy_vs_rent"
       THEN /\ session \in Sessions
            /\ session.fixed_years <= session.mortgage_years
       ELSE session = [unused |-> TRUE]
    /\ InitLocals

\* ------------------------------------------------- a call of monthly_payment
monthly_payment_call ==
    /\ entry = "monthly_payment" /\ pc = "start"
    /\ LET r == monthly_payment(principal, annual_rate, years)
       IN  /\ pc' = IF r.raised THEN "raised" ELSE "returned"
           /\ ret' = r.value
    /\ UNCHANGED <<args, sbr_locals, ga_locals, cmc_locals>>

\* ----------------------------------------- a call of calculate_upfront_costs
calculate_upfront_costs_call ==
    /\ entry = "calculate_upfront_costs" /\ pc = "start"
    /\ ret' = calculate_upfront_costs(property_price, loan, down_payment,
                                       trustee_fee, valuation_fee, dewa_fee,
                                       snagging_fee, processing_fee_pct,
                                       dld_fee_pct, agent_fee_pct)
    /\ pc' = "returned"
    /\ UNCHANGED <<args, sbr_locals, ga_locals, cmc_locals>>

\* ------------------------------------------------ a run of show_buy_vs_rent
\* lines 99-109
sbr_prologue ==
    /\ entry = "show_buy_vs_rent" /\ pc = "start"
    /\ prologue' = Prologue(session)
    /\ IF prologue'.raised # 0
       THEN /\ comparison' = Raise("ZeroDivisionError", prologue'.raised)
            /\ pc' = "raised"
       ELSE /\ pc' = "sbr_costs"
            /\ UNCHANGED comparison
    /\ UNCHANGED <<args, ret, ga_locals, cmc_locals>>

\* lines 111-267
sbr_costs_and_compare ==
    /\ entry = "show_buy_vs_rent" /\ pc = "sbr_costs"
    /\ comparison' = CostsAndCompare(session, prologue)
    /\ pc' = IF comparison'.status = "raised" THEN "raised" ELSE "returned"
    /\ UNCHANGED <<args, ret, ga_locals, cmc_locals, prologue>>

\* --------------------------------------------------- generate_amortization
Row(y, m, payment, p, i, b) ==
    [Year |-> y, Month |-> m, Payment |-> payment, Principal |-> p,
     Interest |-> i, RemainingBalance |-> b]

\* the year counted from the month itself, not from month - 1
YearOf_off_by_one(m) == (m \div 12) + 1

\* line 22, line 32: (month - 1) // 12 + 1
YearOf(m) == ((m - 1) \div 12) + 1

\* balance * monthly_rate
InterestOn(b, rate) == RDiv(b * MonthlyRate(rate), RateScale)

\* the fixed payment sized over the fixed period only
fixed_payment_years_fixed_period == fixed_years

\* line 16: the years the fixed payment is sized over
fixed_payment_years == mortgage_years

\* lines 13-18: the fixed-phase payment is sized over the full term
ga_start ==
    /\ pc = "ga_start"
    /\ LET r == monthly_payment(loan, fixed_rate, fixed_payment_years)
       IN  IF r.raised
           THEN /\ pc' = "raised"
                /\ UNCHANGED ga_locals
           ELSE /\ pc' = "ga_fixed"
                /\ monthly_fixed' = r.value
                /\ balance' = loan
                /\ data' = <<>>
                /\ month' = 1
                /\ UNCHANGED <<monthly_floating, yearly>>
    /\ UNCHANGED <<args, sbr_locals, ret, cmc_locals>>

\* lines 21-27: one iteration of the fixed-period loop
ga_fixed_step ==
    /\ pc = "ga_fixed"
    /\ month <= fixed_months
    /\ LET interest == InterestOn(balance, fixed_rate)
           p == monthly_fixed - interest
       IN  /\ balance' = balance - p
           /\ data' = Append(data, Row(YearOf(month), month, monthly_fixed, p,
                                       interest, balance - p))
    /\ month' = month + 1
    /\ UNCHANGED <<args, sbr_locals, pc, ret, monthly_fixed, monthly_floating, yearly, cmc_locals>>

\* the floating payment sized over the whole term
remaining_years_full_term == mortgage_years

\* line 30, floating_months / 12: the years left after the fixed period
remaining_years == RDiv(floating_months, 12)

\* the floating payment sized on the original loan
floating_payment_base_original_loan == loan

\* line 30: the amount the floating payment is sized on
floating_payment_base == balance

\* line 30: the payment is recomputed from the balance left and the months left
ga_transition ==
    /\ pc = "ga_fixed"
    /\ month > fixed_months
    /\ LET r == monthly_payment(floating_payment_base, floating_rate, remaining_years)
       IN  IF r.raised
           THEN /\ pc' = "raised"
                /\ UNCHANGED monthly_floating
           ELSE /\ pc' = IF fixed_months + 1 <= total_months
                         THEN "ga_floating" ELSE "ga_rollup"
                /\ monthly_floating' = r.value
    /\ UNCHANGED <<args, sbr_locals, ret, month, balance, monthly_fixed, data, yearly, cmc_locals>>

\* the floating principal without the clamp
FloatingPrincipal_unclamped(b, computed) == computed

\* lines 36-37: the principal never exceeds the balance that is left
FloatingPrincipal(b, computed) == IF b - computed < 0 THEN b ELSE computed

\* lines 31-42: one iteration of the floating-period loop
ga_floating_step ==
    /\ pc = "ga_floating"
    /\ LET interest == InterestOn(balance, floating_rate)
           computed == monthly_floating - interest
           clamp == balance - computed < 0
           p == FloatingPrincipal(balance, computed)
           payment == IF clamp THEN p + interest ELSE monthly_floating
       IN  /\ monthly_floating' = payment
           /\ balance' = balance - p
           /\ data' = Append(data, Row(YearOf(month), month, payment, p,
                                       interest, balance - p))
           /\ pc' = IF balance - p <= 0 \/ month = total_months
                    THEN "ga_rollup" ELSE "ga_floating"
    /\ month' = month + 1
    /\ UNCHANGED <<args, sbr_locals, ret, monthly_fixed, yearly, cmc_locals>>

\* df.groupby("Year")[["Principal", "Interest"]].sum().reset_index():
\* one pass over the rows, a group per Year, the groups sorted by Year
\* a group keeps the values of its last row instead of their sum
AddToGroup_last_wins(groups, row) ==
    LET g == [Year |-> row.Year, Principal |-> row.Principal, Interest |-> row.Interest]
    IN  IF groups # <<>> /\ groups[Len(groups)].Year = row.Year
        THEN SubSeq(groups, 1, Len(groups) - 1) \o <<g>>
        ELSE Append(groups, g)

RECURSIVE AddToGroup(_, _)
AddToGroup(groups, row) ==
    IF groups = <<>>
    THEN <<[Year |-> row.Year, Principal |-> row.Principal, Interest |-> row.Interest]>>
    ELSE IF Head(groups).Year = row.Year
         THEN <<[Year |-> row.Year,
                 Principal |-> Head(groups).Principal + row.Principal,
                 Interest |-> Head(groups).Interest + row.Interest]>> \o Tail(groups)
         ELSE IF row.Year < Head(groups).Year
              THEN <<[Year |-> row.Year, Principal |-> row.Principal,
                      Interest |-> row.Interest]>> \o groups
              ELSE <<Head(groups)>> \o AddToGroup(Tail(groups), row)

RECURSIVE GroupByYear(_)
GroupByYear(rows) ==
    IF rows = <<>> THEN <<>>
    ELSE AddToGroup(GroupByYear(SubSeq(rows, 1, Len(rows) - 1)), rows[Len(rows)])

\* lines 44-46: build the tables and return them
ga_return ==
    /\ pc = "ga_rollup"
    /\ yearly' = GroupByYear(data)
    /\ pc' = IF entry = "generate_amortization" THEN "returned" ELSE "cmc_insurance"
    /\ row_idx' = 1
    /\ UNCHANGED <<args, sbr_locals, ret, month, balance, monthly_fixed, monthly_floating, data,
                   cmc_monthly_fixed, cmc_monthly_floating, annual_service_charge,
                   total_service_charge, home_insurance_total, life_insurance_total,
                   life_charges, costs>>

\* ------------------------------------------------- calculate_mortgage_costs
\* lines 54-58: the two headline payments and the service charge
cmc_start ==
    /\ entry = "calculate_mortgage_costs" /\ pc = "start"
    /\ LET mf == monthly_payment(loan, fixed_rate, mortgage_years)
           mfl == monthly_payment(loan, floating_rate, mortgage_years - fixed_years)
       IN  IF mf.raised \/ mfl.raised
           THEN /\ pc' = "raised"
                /\ UNCHANGED cmc_locals
           ELSE /\ pc' = "ga_start"
                /\ cmc_monthly_fixed' = mf.value
                /\ cmc_monthly_floating' = mfl.value
                /\ annual_service_charge' = built_up_area * service_charge_rate
                /\ total_service_charge' =
                       (built_up_area * service_charge_rate) * mortgage_years
                /\ UNCHANGED <<row_idx, home_insurance_total, life_insurance_total,
                               life_charges, costs>>
    /\ UNCHANGED <<args, sbr_locals, ret, ga_locals>>

\* (pct / 100) * amount / 12
MonthlyInsurance(pct, amount) == RDiv(RDiv(RDiv(pct, 100) * amount, RateScale), 12)

\* life insurance charged on the original loan in every month
RowBalance_original_loan(row) == loan

\* line 70: the balance the life insurance is charged on
RowBalance(row) == row.RemainingBalance

\* home insurance charged on the balance that is left
HomeInsuranceBase_balance(row) == row.RemainingBalance

\* line 71: the amount the home insurance is charged on
HomeInsuranceBase(row) == property_price

\* lines 69-75: one iteration of the loop over the monthly rows
cmc_insurance_step ==
    /\ pc = "cmc_insurance"
    /\ row_idx <= Len(data)
    /\ LET row_balance == RowBalance(data[row_idx])
           monthly_home_insurance ==
               MonthlyInsurance(home_insurance_pct, HomeInsuranceBase(data[row_idx]))
           monthly_life_insurance == MonthlyInsurance(life_insurance_pct, row_balance)
       IN  /\ home_insurance_total' = home_insurance_total + monthly_home_insurance
           /\ life_insurance_total' = life_insurance_total + monthly_life_insurance
           /\ life_charges' = Append(life_charges, monthly_life_insurance)
    /\ row_idx' = row_idx + 1
    /\ UNCHANGED <<args, sbr_locals, pc, ret, ga_locals, cmc_monthly_fixed, cmc_monthly_floating,
                   annual_service_charge, total_service_charge, costs>>

\* interest taken as the headline payments times their months, minus the loan
InterestSum_headline(rows) ==
    cmc_monthly_fixed * fixed_months + cmc_monthly_floating * floating_months - loan

\* monthly_amortization["Interest"].sum()
RECURSIVE InterestSum(_)
InterestSum(rows) ==
    IF rows = <<>> THEN 0 ELSE rows[1].Interest + InterestSum(Tail(rows))

\* lines 78-92: the totals and the returned dictionary
cmc_return ==
    /\ pc = "cmc_insurance"
    /\ row_idx > Len(data)
    /\ LET total_interest == InterestSum(data)
           total_payment == loan + total_interest + total_service_charge
                                + home_insurance_total + life_insurance_total
       IN  costs' = [returned |-> TRUE,
                     monthly_fixed |-> cmc_monthly_fixed,
                     monthly_floating |-> cmc_monthly_floating,
                     annual_service_charge |-> annual_service_charge,
                     total_service_charge |-> total_service_charge,
                     total_payment |-> total_payment,
                     total_interest |-> total_interest,
                     total_home_insurance |-> home_insurance_total,
                     total_life_insurance |-> life_insurance_total]
    /\ pc' = "returned"
    /\ UNCHANGED <<args, sbr_locals, ret, ga_locals, cmc_monthly_fixed, cmc_monthly_floating,
                   annual_service_charge, total_service_charge, row_idx,
                   home_insurance_total, life_insurance_total, life_charges>>

Next ==
    \/ monthly_payment_call
    \/ ga_start
    \/ ga_fixed_step
    \/ ga_transition
    \/ ga_floating_step
    \/ ga_return
    \/ cmc_start
    \/ cmc_insurance_step
    \/ cmc_return
    \/ calculate_upfront_costs_call
    \/ sbr_prologue
    \/ sbr_costs_and_compare

Spec == Init /\ [][Next]_vars

\* ============================================================== claims
\* generate_amortization has returned its two tables
ScheduleReturned ==
    /\ entry \in {"generate_amortization", "calculate_mortgage_costs"}
    /\ pc \in {"returned", "cmc_insurance"}

ValidInputs ==
    /\ loan > 0 /\ mortgage_years > 0
    /\ 0 <= fixed_years /\ fixed_years <= mortgage_years
    /\ fixed_rate >= 0 /\ floating_rate >= 0

LastRow == data[Len(data)]

PrevBalance(i) == IF i = 1 THEN loan ELSE data[i - 1].RemainingBalance

\* the sum of f[x] over the x in S
RECURSIVE SumOver(_, _)
SumOver(f, S) ==
    IF S = {} THEN 0
    ELSE LET x == CHOOSE y \in S : TRUE IN f[x] + SumOver(f, S \ {x})

PrincipalColumn == [i \in DOMAIN data |-> data[i].Principal]
InterestColumn == [i \in DOMAIN data |-> data[i].Interest]
PrincipalTotal == SumOver(PrincipalColumn, DOMAIN data)

InterestTotal == SumOver(InterestColumn, DOMAIN data)
RowsOfYear(y) == {i \in DOMAIN data : data[i].Year = y}

\* the rounding error tolerated on an amount: one currency unit
Epsilon == Money(1)

\* the last floating row was clamped to the balance
ClampedEnd ==
    /\ Len(data) >= 2
    /\ LastRow.Month > fixed_months
    /\ LastRow.RemainingBalance = 0
    /\ LastRow.Payment # data[Len(data) - 1].Payment

\* both periods have rows
TwoPhases == 0 < fixed_months /\ fixed_months < Len(data)

\* C1: for every valid input generate_amortization returns a schedule whose
\* final row has Remaining Balance equal to 0.
C1_Convergence ==
    (entry = "generate_amortization" /\ ValidInputs /\ pc \in {"returned", "raised"})
        => (pc = "returned" /\ data # <<>> /\ LastRow.RemainingBalance = 0)

\* C2: in every schedule returned for valid inputs each row's Remaining Balance
\* is the previous balance (the loan for the first row) minus the row's
\* Principal, never above the previous balance and never negative.
C2_BalanceInvariant ==
    (ScheduleReturned /\ ValidInputs) =>
        \A i \in DOMAIN data :
            /\ data[i].RemainingBalance = PrevBalance(i) - data[i].Principal
            /\ data[i].RemainingBalance <= PrevBalance(i)
            /\ data[i].RemainingBalance >= 0

C2_Witness == ScheduleReturned /\ ValidInputs /\ TwoPhases /\ ClampedEnd

\* C3 as stated: the Principal column of a returned schedule sums to exactly
\* the loan amount.
C3_ConservationExact ==
    (ScheduleReturned /\ ValidInputs) => PrincipalTotal = loan

\* C3 amended: the Principal column of a returned schedule sums to the loan
\* amount up to the accumulated rounding error, not always exactly.
C3_ConservationWithinEpsilon ==
    (ScheduleReturned /\ ValidInputs) => Abs(PrincipalTotal - loan) <= Epsilon

C3_Witness ==
    ScheduleReturned /\ ValidInputs /\ TwoPhases /\ PrincipalTotal # loan

C5_YearlyRollup ==
    ScheduleReturned =>
        /\ {yearly[j].Year : j \in DOMAIN yearly} = {data[i].Year : i \in DOMAIN data}
        /\ \A j, k \in DOMAIN yearly : j < k => yearly[j].Year < yearly[k].Year
        /\ \A j \in DOMAIN yearly :
            /\ yearly[j].Principal = SumOver(PrincipalColumn, RowsOfYear(yearly[j].Year))
            /\ yearly[j].Interest = SumOver(InterestColumn, RowsOfYear(yearly[j].Year))

C5_Witness ==
    ScheduleReturned /\ Len(yearly) >= 2 /\ yearly[1].Interest # yearly[2].Interest

\* C6: at a zero rate and a positive term monthly_payment returns
\* principal / (years * 12) and does not fail with a division by zero;
\* monthly_payment(120000, 0, 10) is exactly 1000.
C6_ZeroRate ==
    (entry = "monthly_payment" /\ pc # "start" /\ annual_rate = 0 /\ years > 0) =>
        /\ pc = "returned"
        /\ 2 * Abs(ret * (years * 12) - principal) <= years * 12
        /\ (principal = Money(120000) /\ years = 10) => ret = Money(1000)

C6_Witness ==
    /\ entry = "monthly_payment" /\ pc = "returned"
    /\ principal = Money(120000) /\ annual_rate = 0 /\ years = 10
    /\ ret = Money(1000)

\* C7: monthly_payment reports an invalid input, and returns no payment, for
\* every call with a term <= 0 and for every call with a negative principal.
C7_InvalidInputRejected ==
    (entry = "monthly_payment" /\ pc # "start" /\ (years <= 0 \/ principal < 0))
        => pc = "raised"

\* C8: generate_amortization with fixed_years > mortgage_years is rejected
\* before the simulation: no row is computed and no schedule is returned.
C8_FixedBeyondTermRejected ==
    (entry = "generate_amortization" /\ fixed_years > mortgage_years)
        => (data = <<>> /\ pc # "returned")

\* C9: calculate_mortgage_costs returns total_interest equal to the sum of the
\* Interest column of the schedule, and total_payment equal to loan_amount +
\* total_interest + total_service_charge + total_home_insurance +
\* total_life_insurance.
C9_Totals ==
    costs.returned =>
        /\ costs.total_interest = InterestTotal
        /\ costs.total_payment =
               loan + costs.total_interest + costs.total_service_charge
                    + costs.total_home_insurance + costs.total_life_insurance

C9_Witness ==
    /\ costs.returned /\ ValidInputs /\ TwoPhases
    /\ costs.total_interest > 0
    /\ costs.total_home_insurance > 0 /\ costs.total_life_insurance > 0
    /\ costs.total_payment > loan + costs.total_interest + costs.total_service_charge

\* C10: calculate_mortgage_costs returns total_life_insurance equal to the sum
\* over the rows of (life_insurance_pct / 100) * Remaining Balance / 12, and
\* the monthly life-insurance charge never increases from month to month.
LifeChargeColumn ==
    [i \in DOMAIN data |->
        RDiv(RDiv(RDiv(life_insurance_pct, 100) * data[i].RemainingBalance,
                  RateScale), 12)]

C10_LifeInsurance ==
    costs.returned =>
        /\ costs.total_life_insurance = SumOver(LifeChargeColumn, DOMAIN data)
        /\ Len(life_charges) = Len(data)
        /\ \A i \in DOMAIN life_charges :
               i > 1 => life_charges[i] <= life_charges[i - 1]

C10_Witness ==
    /\ costs.returned /\ ValidInputs /\ TwoPhases
    /\ life_insurance_pct > 0
    /\ life_charges[Len(life_charges)] < life_charges[1]

\* C11: calculate_mortgage_costs returns total_service_charge = built_up_area *
\* service_charge_rate * mortgage_years whatever the number of rows, and
\* total_home_insurance = rows * (home_insurance_pct / 100) * property_price / 12,
\* the same amount for every row, taken on the price and not on the balance.
HomeInsurancePerMonth ==
    RDiv(RDiv(RDiv(home_insurance_pct, 100) * property_price, RateScale), 12)

C11_FlatCharges ==
    costs.returned =>
        /\ costs.total_service_charge =
               built_up_area * service_charge_rate * mortgage_years
        /\ costs.total_home_insurance = Len(data) * HomeInsurancePerMonth

\* a result whose schedule does not have 12 rows per year of the term
C11_Witness ==
    /\ costs.returned
    /\ home_insurance_pct > 0 /\ costs.total_home_insurance > 0
    /\ costs.total_service_charge > 0
    /\ Len(data) # mortgage_years * 12

\* C12: calculate_upfront_costs returns down_payment + (dld_fee_pct / 100) *
\* property_price + (agent_fee_pct / 100) * property_price + trustee_fee +
\* valuation_fee + dewa_fee + snagging_fee + (processing_fee_pct / 100) *
\* loan_amount, each component counted exactly once.
C12_UpfrontCosts ==
    (entry = "calculate_upfront_costs" /\ pc = "returned") =>
        ret = down_payment
                + RDiv(RDiv(dld_fee_pct, 100) * property_price, RateScale)
                + RDiv(RDiv(agent_fee_pct, 100) * property_price, RateScale)
                + trustee_fee + valuation_fee + dewa_fee + snagging_fee
                + RDiv(RDiv(processing_fee_pct, 100) * loan, RateScale)

\* a call in which every component is positive and the loan is not the price
C12_Witness ==
    /\ entry = "calculate_upfront_costs" /\ pc = "returned"
    /\ down_payment > 0 /\ trustee_fee > 0 /\ valuation_fee > 0
    /\ dewa_fee > 0 /\ snagging_fee > 0
    /\ processing_fee_pct > 0 /\ dld_fee_pct > 0 /\ agent_fee_pct > 0
    /\ loan # property_price
    /\ ret > down_payment + trustee_fee + valuation_fee + dewa_fee + snagging_fee

\* C13: for every valid parameter set show_buy_vs_rent completes its calls to
\* calculate_mortgage_costs and calculate_upfront_costs without raising and
\* produces exactly compare_years records, one per year 1 .. compare_years in
\* ascending order.
ValidSession ==
    /\ session.property_price > 0
    /\ session.mortgage_years > 0
    /\ session.fixed_years >= 1 /\ session.fixed_years < session.mortgage_years
    /\ session.fixed_rate >= 0 /\ session.eibor_rate >= 0
    /\ session.compare_years >= 1

Compared == entry = "show_buy_vs_rent" /\ pc \in {"raised", "returned"}

C13_ComparisonCompletes ==
    (Compared /\ ValidSession) =>
        /\ comparison.status = "returned"
        /\ Len(comparison.comparison_df) = session.compare_years
        /\ \A y \in 1 .. session.compare_years :
               comparison.comparison_df[y].Year = y

\* C14: when some year y in 1 .. compare_years has net position + cumulative
\* rent > 0, the reported break-even year is the smallest such y, every earlier
\* year having net position + cumulative rent <= 0.
Advantage(y) ==
    comparison.comparison_df[y].NetPosition
        + comparison.comparison_df[y].CumulativeRent

C14_BreakEvenInFrame ==
    (Compared /\ ValidSession) =>
        /\ comparison.status = "returned"
        /\ \A y \in 1 .. session.compare_years :
               (Advantage(y) > 0 /\ \A z \in 1 .. y - 1 : Advantage(z) <= 0)
                   => comparison.break_even_year = y

\* C15: when no year within compare_years breaks even, the extension
\* terminates, looks at no year beyond 100, and reports a year in
\* (compare_years, 100] or no break-even at all.
C15_ExtensionCapped ==
    (Compared /\ ValidSession) =>
        /\ comparison.status = "returned"
        /\ (\A y \in 1 .. session.compare_years : Advantage(y) <= 0)
               => \/ comparison.break_even_year = None
                  \/ comparison.break_even_year \in session.compare_years + 1 .. 100

\* C16: of two runs that differ only in appreciation_rate, the one with the
\* higher rate has in every year a property value and a net position that are
\* not lower, and a final property value and final net position not lower.
C16_AppreciationMonotone ==
    (Compared /\ ValidSession) =>
        \A r \in AppreciationRates :
            r >= session.appreciation_rate =>
                LET higher == show_buy_vs_rent([session EXCEPT !.appreciation_rate = r])
                IN  /\ comparison.status = "returned" /\ higher.status = "returned"
                    /\ \A y \in 1 .. session.compare_years :
                           /\ higher.property_value[y] >= comparison.property_value[y]
                           /\ higher.comparison_df[y].NetPosition
                                  >= comparison.comparison_df[y].NetPosition
                    /\ higher.final_property_value >= comparison.final_property_value
                    /\ higher.net_worth_buying >= comparison.net_worth_buying

\* C17: every row with Month <= fixed_years * 12 carries the same Payment,
\* monthly_payment(loan, fixed_rate, mortgage_years), sized over the full term
\* and not over the fixed period, with Interest = previous balance *
\* fixed_rate / 100 / 12 and Principal = Payment - Interest.
C17_FixedPhasePayment ==
    ScheduleReturned =>
        LET full_term == monthly_payment(loan, fixed_rate, mortgage_years).value
        IN  \A i \in DOMAIN data :
            data[i].Month <= fixed_years * 12 =>
                /\ data[i].Payment = full_term
                /\ data[i].Interest =
                       RDiv(PrevBalance(i) * RDiv(RDiv(fixed_rate, 100), 12), RateScale)
                /\ data[i].Principal = data[i].Payment - data[i].Interest

\* a schedule with a fixed period shorter than the term, at a positive rate,
\* whose payment is not the one that would repay the loan in the fixed period
C17_Witness ==
    /\ ScheduleReturned /\ ValidInputs /\ TwoPhases
    /\ fixed_rate > 0
    /\ data[fixed_months].Payment = data[1].Payment
    /\ data[1].Payment # monthly_payment(loan, fixed_rate, fixed_years).value

\* C18: every floating row (Month > fixed_years * 12) other than a clamped
\* final row carries Payment = monthly_payment(balance after the last fixed
\* row, floating_rate, mortgage_years - fixed_years); the fixed payment is not
\* carried into the floating period.
BalanceAtTransition == PrevBalance(fixed_months + 1)

RecomputedPayment ==
    monthly_payment(BalanceAtTransition, floating_rate,
                    mortgage_years - fixed_years).value

\* the principal computed for row i exceeds the balance left before it
WouldOverpay(i, payment) == payment - data[i].Interest > PrevBalance(i)

C18_FloatingPayment ==
    (ScheduleReturned /\ ValidInputs) =>
        LET recomputed == RecomputedPayment
        IN  \A i \in DOMAIN data :
                (data[i].Month > fixed_years * 12 /\ ~WouldOverpay(i, recomputed)) =>
                    data[i].Payment = recomputed

\* a schedule with both periods whose floating rows carry a payment that is
\* neither the fixed one nor the one sized on the original loan
C18_Witness ==
    /\ ScheduleReturned /\ ValidInputs /\ TwoPhases
    /\ ~WouldOverpay(fixed_months + 1, RecomputedPayment)
    /\ data[fixed_months + 1].Payment = RecomputedPayment
    /\ data[fixed_months + 1].Payment # data[fixed_months].Payment
    /\ data[fixed_months + 1].Payment #
           monthly_payment(loan, floating_rate, mortgage_years - fixed_years).value

\* C19: a floating row whose computed principal would exceed the balance left
\* has Principal = that balance, Payment = Principal + Interest, Remaining
\* Balance exactly 0 and is the last row; in any schedule no row follows a row
\* whose Remaining Balance is <= 0.
C19_ClampEndsSchedule ==
    ScheduleReturned =>
        /\ \A i \in DOMAIN data :
               data[i].RemainingBalance <= 0 => i = Len(data)
        /\ \A i \in DOMAIN data :
               (data[i].Month > fixed_years * 12
                    /\ WouldOverpay(i, RecomputedPayment)) =>
                   /\ data[i].Principal = PrevBalance(i)
                   /\ data[i].Payment = data[i].Principal + data[i].Interest
                   /\ data[i].RemainingBalance = 0
                   /\ i = Len(data)

\* C20: the net position of every year record is equity - cumulative
\* ownership cost - opportunity cost, with equity = property value - remaining
\* balance and an opportunity cost of 0 when it is not included.
C20_NetPosition ==
    (Compared /\ ValidSession) =>
        /\ comparison.status = "returned"
        /\ \A y \in 1 .. session.compare_years :
               LET rec == comparison.comparison_df[y]
               IN  /\ rec.NetPosition =
                          rec.PropertyEquity - rec.CumulativeBuyCost
                              - rec.OpportunityCost
                   /\ rec.PropertyEquity =
                          comparison.property_value[y] - comparison.remaining_loan[y]
                   /\ ~session.include_opportunity_cost => rec.OpportunityCost = 0

\* C21: in the comparison the life insurance added to a year's ownership cost
\* is the life-insurance rate applied to that year's remaining loan, added only
\* in years whose remaining loan is > 0, so it shrinks as the loan amortizes.
C21_LifeInsuranceOnBalance ==
    (Compared /\ ValidSession) =>
        /\ comparison.status = "returned"
        /\ \A y \in 1 .. session.compare_years :
               comparison.life_insurance[y] =
                   IF comparison.remaining_loan[y] > 0
                   THEN RDiv(RDiv(DEFAULTS.life_insurance_pct, 100)
                                 * comparison.remaining_loan[y], RateScale)
                   ELSE 0

\* C22: in the comparison the remaining loan is never negative, never grows
\* from one year to the next, and in every year after mortgage_years it is 0
\* and no mortgage payment is added to the ownership cost.
LoanAtStart(y) ==
    IF y = 1 THEN comparison.loan_amount ELSE comparison.remaining_loan[y - 1]

C22_RemainingLoan ==
    (Compared /\ ValidSession) =>
        /\ comparison.status = "returned"
        /\ \A y \in 1 .. session.compare_years :
               /\ comparison.remaining_loan[y] >= 0
               /\ comparison.remaining_loan[y] <= LoanAtStart(y)
               /\ y > session.mortgage_years =>
                      /\ comparison.remaining_loan[y] = 0
                      /\ comparison.mortgage_paid[y] = 0

\* C23: the monthly_floating returned by calculate_mortgage_costs is the
\* Payment of the unclamped floating rows of the schedule that
\* generate_amortization produces for the same loan parameters.
C23_ReportedFloatingPayment ==
    (costs.returned /\ ValidInputs) =>
        LET recomputed == RecomputedPayment
        IN  \A i \in DOMAIN data :
                (data[i].Month > fixed_years * 12 /\ ~WouldOverpay(i, recomputed)) =>
                    data[i].Payment = costs.monthly_floating

\* C24: in the comparison no mortgage payment is added to the ownership cost
\* of a year that begins with a remaining loan of 0, and the principal credited
\* over all years (annual payment minus estimated annual interest) sums to at
\* most the original loan.
C24_PrincipalCredited ==
    (Compared /\ ValidSession) =>
        /\ comparison.status = "returned"
        /\ \A y \in 1 .. session.compare_years :
               LoanAtStart(y) = 0 => comparison.mortgage_paid[y] = 0
        /\ SumOver(comparison.principal_credited, 1 .. session.compare_years)
               <= comparison.loan_amount

\* C25: the summary agrees with the last year record: the final net position
\* is the Net Position of the record of year compare_years, and the final
\* property value is property_price * (1 + appreciation_rate / 100) ^
\* compare_years.
C25_SummaryFigures ==
    (Compared /\ ValidSession) =>
        /\ comparison.status = "returned"
        /\ comparison.net_worth_buying =
               comparison.comparison_df[session.compare_years].NetPosition
        /\ comparison.final_property_value =
               RDiv(session.property_price
                        * Pow(RateScale + RDiv(session.appreciation_rate, 100),
                              session.compare_years),
                    RateScale)

\* C26: the extension uses the sign convention of the scan within the horizon,
\* cumulative rent counting in favour of buying in both: with everything else
\* fixed, a higher starting monthly rent never turns a found break-even year
\* into a later year or into no break-even.
C26_RentFavoursBuying ==
    (Compared /\ ValidSession) =>
        \A rent \in MonthlyRents :
            rent >= session.monthly_rent =>
                LET higher == show_buy_vs_rent([session EXCEPT !.monthly_rent = rent])
                IN  /\ comparison.status = "returned" /\ higher.status = "returned"
                    /\ comparison.break_even_year # None =>
                           /\ higher.break_even_year # None
                           /\ higher.break_even_year <= comparison.break_even_year
====
